---------------------------- MODULE Spec2Model ----------------------------
(***************************************************************************)
(* A model of the SEC financial-facts extraction of sec-converter           *)
(* (pages/api/sec-data.js): the annual fact selector, the statement         *)
(* builder, the ratio helpers and the data-quality scorer.                  *)
(*                                                                          *)
(* JavaScript values are modelled as tagged records: Null, Undefined,       *)
(* Num(n) and Str(s).  Monetary amounts are integers.  A ratio that the     *)
(* code rounds with toFixed(2) is carried as an integer number of           *)
(* hundredths (Num(5000) in a keyMetrics field stands for 50.00).           *)
(* A date string "YYYY-MM-DD" is carried as DateStr(y, m, d).               *)
(***************************************************************************)
EXTENDS Integers, Sequences, FiniteSets, TLC

VARIABLES
    \* --- selector harness (getRecentAnnualValue as a pure function) ---
    selPc,        \* "ready" | "done"
    usgaap,       \* facts['us-gaap']: tag -> (unit -> sequence of observations)
    tz,           \* time zone of the server process: "utc" | "west"
    fieldNames,   \* the alias list handed to the selector
    minYear,      \* the fiscal-year floor handed to the selector
    selResult,    \* what the selector returned and logged
    \* --- trend harness (getQuarterlyValues as a pure function) ---
    qtrPc,        \* "ready" | "done"
    qtrFieldNames, \* the alias list handed to the sampler
    qtrWindow,    \* the quarters argument handed to the sampler
    qtrResult,    \* the sequence of points the sampler returned
    \* --- ratio harness (calculateRatio as a pure function) ---
    ratPc,        \* "ready" | "done"
    numerator,
    denominator,
    ratio,        \* what calculateRatio returned
    \* --- request handler ---
    pc,           \* "idle" | "delay" | "fetch" | "extract" | "responded"
    req,          \* the request: method, ticker, cik
    factsData,    \* the body fetched from the filings database
    res,          \* the response sent: status and body
    \* --- the server process over time ---
    now,          \* the year the system clock shows
    earlier,      \* the request served before the current one, with its response
    \* --- the page component (SECConverter): its React state ---
    searchQuery,
    searchResults,
    selectedCompany,
    loading,
    searchLoading,
    error,
    success,
    analysisProgress,
    currentStep,
    recentDownloads,
    dataQuality,
    \* --- the page component: what is pending, and what has happened ---
    debounce,     \* the 300 ms timeout of the search effect: "armed" | "none"
    searchCalls,  \* the calls of /api/search-companies awaiting their response
    infoCalls,    \* the calls of /api/company-info awaiting their response
    run,          \* the invocation of processCompanyData: position, index, company
    hist          \* counts of calls, downloads and runs; the latest query and selection

selVars == <<selPc, fieldNames, minYear, selResult>>
qtrVars == <<qtrPc, qtrFieldNames, qtrWindow, qtrResult>>
ratVars == <<ratPc, numerator, denominator, ratio>>
hdlVars == <<pc, req, factsData, res>>
envVars == <<usgaap, tz>>
clkVars == <<now, earlier>>
stateVars == <<searchQuery, searchResults, selectedCompany, loading, searchLoading, error,
               success, analysisProgress, currentStep, recentDownloads, dataQuality>>
uiVars == <<stateVars, debounce, searchCalls, infoCalls, run, hist>>
vars == <<selPc, usgaap, tz, fieldNames, minYear, selResult,
          qtrPc, qtrFieldNames, qtrWindow, qtrResult,
          ratPc, numerator, denominator, ratio,
          pc, req, factsData, res, now, earlier,
          searchQuery, searchResults, selectedCompany, loading, searchLoading, error,
          success, analysisProgress, currentStep, recentDownloads, dataQuality,
          debounce, searchCalls, infoCalls, run, hist>>

-----------------------------------------------------------------------------
(* JavaScript values *)

Null == [t |-> "null"]
Undefined == [t |-> "undefined"]
Num(n) == [t |-> "num", v |-> n]
Str(s) == [t |-> "str", s |-> s]
DateStr(y, m, d) == [t |-> "date", y |-> y, m |-> m, d |-> d]
\* a number that is not rounded: the quotient n / d, with d > 0
Frac(n, d) == [t |-> "frac", n |-> n, d |-> d]
\* the string toFixed(2) makes of a number, carried as its hundredths
Fixed(h) == [t |-> "fixed", v |-> h]

IsNum(x) == x.t = "num"
IsNullish(x) == x.t \in {"null", "undefined"}

\* ToBoolean: null, undefined, 0 and "" are falsy
Truthy(x) ==
    CASE x.t = "null" -> FALSE
      [] x.t = "undefined" -> FALSE
      [] x.t = "num" -> x.v # 0
      [] x.t = "str" -> x.s # ""
      [] x.t = "frac" -> x.n # 0
      [] OTHER -> TRUE

\* isNaN(x): ToNumber(x) is NaN.  null converts to 0, undefined and a
\* non-numeric string convert to NaN.
IsNaN(x) ==
    CASE x.t = "num" -> FALSE
      [] x.t = "null" -> FALSE
      [] OTHER -> TRUE

\* a || b
Or(a, b) == IF Truthy(a) THEN a ELSE b

\* new Date("YYYY-MM-DD") - a date-only string is UTC midnight of that day.
\* The time value is carried as a day ordinal that keeps the order of dates.
NewDate(s) == s.y * 372 + (s.m - 1) * 31 + (s.d - 1)

\* new Date(s).getFullYear() - the year in the LOCAL time zone of the process.
\* UTC midnight is still the same day east of Greenwich and the previous day
\* west of it, so 1 January reads as the previous year there.
GetFullYear(s, zone) ==
    IF zone = "west" /\ s.m = 1 /\ s.d = 1 THEN s.y - 1 ELSE s.y

-----------------------------------------------------------------------------
(* The fact selector: getRecentAnnualValue *)

FactValues(doc, fieldName, units) ==
    IF fieldName \in DOMAIN doc /\ units \in DOMAIN doc[fieldName].units
    THEN doc[fieldName].units[units]
    ELSE <<>>

\* the filter without its year floor
IsAnnualValueNoFloor(v, zone, floor) ==
    LET isAnnual == Truthy(v.form) /\ (v.form = Str("10-K") \/ v.form = Str("10-K/A"))
        isFullYear == v.fp = Str("FY")
        hasValidValue == v.val # Null /\ v.val # Undefined /\ ~IsNaN(v.val)
        hasEndDate == Truthy(v.end)
    IN  isAnnual /\ isFullYear /\ hasValidValue /\ hasEndDate

\* the filter that also wants a value above 0
IsAnnualValuePositive(v, zone, floor) ==
    LET isAnnual == Truthy(v.form) /\ (v.form = Str("10-K") \/ v.form = Str("10-K/A"))
        isFullYear == v.fp = Str("FY")
        hasValidValue == IsNum(v.val) /\ v.val.v > 0
        hasEndDate == Truthy(v.end)
        year == IF Truthy(v.end) THEN GetFullYear(v.end, zone) ELSE 0
        isRecent == year >= floor
    IN  isAnnual /\ isFullYear /\ hasValidValue /\ hasEndDate /\ isRecent

\* the filter closure: ANNUAL 10-K data only
IsAnnualValue(v, zone, floor) ==
    LET isAnnual == Truthy(v.form) /\ (v.form = Str("10-K") \/ v.form = Str("10-K/A"))
        isFullYear == v.fp = Str("FY")
        hasValidValue == v.val # Null /\ v.val # Undefined /\ ~IsNaN(v.val)
        hasEndDate == Truthy(v.end)
        year == IF Truthy(v.end) THEN GetFullYear(v.end, zone) ELSE 0
        isRecent == year >= floor
    IN  isAnnual /\ isFullYear /\ hasValidValue /\ hasEndDate /\ isRecent

\* an insertion that puts an observation in front of those of the same date
RECURSIVE InsertByEndDescLastWins(_, _)
InsertByEndDescLastWins(sorted, x) ==
    IF sorted = <<>> THEN <<x>>
    ELSE IF NewDate(Head(sorted).end) > NewDate(x.end)
         THEN <<Head(sorted)>> \o InsertByEndDescLastWins(Tail(sorted), x)
         ELSE <<x>> \o sorted

\* values.sort((a, b) => new Date(b.end) - new Date(a.end)): most recent
\* first; Array.prototype.sort is stable, so equal dates keep their order.
RECURSIVE InsertByEndDesc(_, _)
InsertByEndDesc(sorted, x) ==
    IF sorted = <<>> THEN <<x>>
    ELSE IF NewDate(Head(sorted).end) >= NewDate(x.end)
         THEN <<Head(sorted)>> \o InsertByEndDesc(Tail(sorted), x)
         ELSE <<x>> \o sorted

\* the sort left out: the observations stay in document order
SortKeepOrder(values) == values

RECURSIVE SortByEndDesc(_)
SortByEndDesc(values) ==
    IF values = <<>> THEN <<>>
    ELSE InsertByEndDesc(SortByEndDesc(SubSeq(values, 1, Len(values) - 1)),
                         values[Len(values)])

NoData == [ret |-> Null, found |-> ""]

\* The result of one alias: the most recent qualifying observation.
Resolved(fieldName, mostRecent, zone) ==
    [ret |-> [t |-> "obj",
              value |-> mostRecent.val,
              year |-> GetFullYear(mostRecent.end, zone),
              endDate |-> mostRecent.end,
              filingDate |-> mostRecent.filed],
     found |-> fieldName]

\* The for-loop over the alias list from position i on.  `found` is the
\* field name the code logs with "Found ..."; "" stands for "No data found".
RECURSIVE WalkAliases(_, _, _, _, _, _)
WalkAliases(doc, zone, names, units, floor, i) ==
    IF i > Len(names) THEN NoData
    ELSE LET values == FactValues(doc, names[i], units)
             annualValues == SelectSeq(values, LAMBDA v : IsAnnualValue(v, zone, floor))
         IN  IF annualValues = <<>>
             THEN WalkAliases(doc, zone, names, units, floor, i + 1)
             ELSE Resolved(names[i], Head(SortByEndDesc(annualValues)), zone)

getRecentAnnualValue(doc, zone, names, units, floor) ==
    WalkAliases(doc, zone, names, units, floor, 1)

-----------------------------------------------------------------------------
(* The concept alias table (the field-name lists of the handler) *)

revenueFields ==
    << "RevenueFromContractWithCustomerExcludingAssessedTax",
       "Revenues",
       "SalesRevenueNet",
       "RevenuesNetOfInterestExpense",
       "RevenueFromContractWithCustomerIncludingAssessedTax",
       "SalesRevenueGoodsNet",
       "SalesRevenueServicesNet",
       "TotalRevenues",
       "Revenue",
       "NetRevenues",
       "OperatingRevenues",
       "RevenueFromSaleOfGoods",
       "RevenueFromServices" >>

\* a floor read off the clock at each call
CurrentYearMinusThree == now - 3

\* the default of the minYear parameter
DefaultMinYear == 2022

costFields ==
    << "CostOfGoodsAndServicesSold",
       "CostOfRevenue",
       "CostOfGoodsSold",
       "CostOfSales",
       "CostOfServices",
       "CostOfProductRevenue",
       "CostOfServiceRevenue",
       "CostOfRevenueExcludingDepreciationAndAmortization" >>

sgaFields == << "SellingGeneralAndAdministrativeExpense", "GeneralAndAdministrativeExpense" >>
rdFields ==
    << "ResearchAndDevelopmentExpense",
       "ResearchAndDevelopmentExpenseExcludingAcquiredInProcessCost" >>
operatingIncomeFields == << "OperatingIncomeLoss", "IncomeLossFromOperations" >>
netIncomeFields ==
    << "NetIncomeLoss", "ProfitLoss", "NetIncomeLossAvailableToCommonStockholdersBasic" >>
totalAssetsFields == << "Assets", "TotalAssets" >>
totalLiabilitiesFields == << "Liabilities", "TotalLiabilities" >>
equityFields ==
    << "StockholdersEquity",
       "StockholdersEquityIncludingPortionAttributableToNoncontrollingInterest",
       "TotalEquity" >>
currentAssetsFields == << "AssetsCurrent", "CurrentAssets" >>
currentLiabilitiesFields == << "LiabilitiesCurrent", "CurrentLiabilities" >>
cashFields ==
    << "CashAndCashEquivalentsAtCarryingValue",
       "CashCashEquivalentsAndShortTermInvestments",
       "Cash",
       "CashAndCashEquivalents" >>
operatingCashFlowFields ==
    << "NetCashProvidedByUsedInOperatingActivities",
       "NetCashProvidedByOperatingActivities",
       "CashFlowsFromOperatingActivities" >>
investingCashFlowFields ==
    << "NetCashProvidedByUsedInInvestingActivities", "NetCashUsedInInvestingActivities" >>
financingCashFlowFields ==
    << "NetCashProvidedByUsedInFinancingActivities", "NetCashUsedInFinancingActivities" >>
sharesFields ==
    << "WeightedAverageNumberOfSharesOutstandingBasic",
       "CommonStockSharesOutstanding",
       "EntityCommonStockSharesOutstanding" >>
epsFields == << "EarningsPerShareBasic", "EarningsPerShareDiluted", "BasicEarningsPerShare" >>
quarterlyNetIncomeFields == << "NetIncomeLoss", "ProfitLoss" >>

\* the default of the quarters parameter of getQuarterlyValues
DefaultQuarters == 4

\* the sanity bound of calculateRatio, in percent
RatioBound == 1000

-----------------------------------------------------------------------------
(* The trend sampler: getQuarterlyValues *)

IsQuarterlyValue(v) ==
    LET isQuarterly == Truthy(v.form) /\ (v.form = Str("10-Q") \/ v.form = Str("10-K"))
        isQuarter == v.fp \in {Str("Q1"), Str("Q2"), Str("Q3"), Str("Q4"), Str("FY")}
        hasValidValue == v.val # Null /\ v.val # Undefined /\ ~IsNaN(v.val)
        hasEndDate == Truthy(v.end)
    IN  isQuarterly /\ isQuarter /\ hasValidValue /\ hasEndDate

QuarterlyPoint(q, zone) ==
    [value |-> q.val, period |-> q.fp, endDate |-> q.end, year |-> GetFullYear(q.end, zone)]

\* the walk without slice(0, quarters): every filtered observation is returned
RECURSIVE WalkQuarterlyNoSlice(_, _, _, _, _, _)
WalkQuarterlyNoSlice(doc, zone, names, units, quarters, i) ==
    IF i > Len(names) THEN <<>>
    ELSE LET values == FactValues(doc, names[i], units)
             quarterlyValues == SelectSeq(values, IsQuarterlyValue)
             sorted == SortByEndDesc(quarterlyValues)
         IN  IF quarterlyValues = <<>>
             THEN WalkQuarterlyNoSlice(doc, zone, names, units, quarters, i + 1)
             ELSE [k \in 1..Len(sorted) |-> QuarterlyPoint(sorted[k], zone)]

RECURSIVE WalkQuarterly(_, _, _, _, _, _)
WalkQuarterly(doc, zone, names, units, quarters, i) ==
    IF i > Len(names) THEN <<>>
    ELSE LET values == FactValues(doc, names[i], units)
             quarterlyValues == SelectSeq(values, IsQuarterlyValue)
             sorted == SortByEndDesc(quarterlyValues)
             kept == SubSeq(sorted, 1, IF Len(sorted) < quarters THEN Len(sorted) ELSE quarters)
         IN  IF quarterlyValues = <<>>
             THEN WalkQuarterly(doc, zone, names, units, quarters, i + 1)
             ELSE [k \in 1..Len(kept) |-> QuarterlyPoint(kept[k], zone)]

getQuarterlyValues(doc, zone, names, units, quarters) ==
    WalkQuarterly(doc, zone, names, units, quarters, 1)

-----------------------------------------------------------------------------
(* The ratio engine: calculateRatio and calculateSimpleRatio *)

Abs(n) == IF n < 0 THEN -n ELSE n

\* a / b rounded to the nearest integer, a tie away from zero: what
\* toFixed does to the quotient once it is scaled to hundredths.
RoundDiv(a, b) ==
    LET q == (2 * Abs(a) + Abs(b)) \div (2 * Abs(b))
    IN  IF (a < 0) # (b < 0) THEN -q ELSE q

\* a / b > c and a / b < c, for b # 0
QuotientGT(a, b, c) == IF b > 0 THEN a > c * b ELSE a < c * b
QuotientLT(a, b, c) == IF b > 0 THEN a < c * b ELSE a > c * b

\* calculateRatio without the test of its numerator
calculateRatioNoNumeratorCheck(num, den) ==
    IF ~Truthy(den)
    THEN Null
    ELSE LET n == IF IsNum(num) THEN num.v ELSE 0
         IN  IF QuotientGT(100 * n, den.v, RatioBound)
                  \/ QuotientLT(100 * n, den.v, -RatioBound)
             THEN Null
             ELSE Num(RoundDiv(10000 * n, den.v))

\* calculateRatio that also discards a percentage of exactly the bound
calculateRatioInclusiveBound(num, den) ==
    IF ~Truthy(num) \/ ~Truthy(den) \/ den = Num(0)
    THEN Null
    ELSE IF ~QuotientLT(100 * num.v, den.v, RatioBound)
              \/ ~QuotientGT(100 * num.v, den.v, -RatioBound)
         THEN Null
         ELSE Num(RoundDiv(10000 * num.v, den.v))

\* The result is in hundredths of a percent point: Num(5000) is 50.00 (%).
calculateRatio(num, den) ==
    IF ~Truthy(num) \/ ~Truthy(den) \/ den = Num(0)
    THEN Null
    ELSE IF QuotientGT(100 * num.v, den.v, RatioBound)
              \/ QuotientLT(100 * num.v, den.v, -RatioBound)
         THEN Null
         ELSE Num(RoundDiv(10000 * num.v, den.v))

\* The result is in hundredths: Num(150) is 1.50.
calculateSimpleRatio(num, den) ==
    IF ~Truthy(num) \/ ~Truthy(den) \/ den = Num(0)
    THEN Null
    ELSE Num(RoundDiv(100 * num.v, den.v))

-----------------------------------------------------------------------------
(* The statement builder *)

\* data?.value || 0
ValueOrZero(d) == IF d = Null THEN 0 ELSE IF Truthy(d.value) THEN d.value.v ELSE 0

\* data?.value || null
ValueOrNull(d) == IF d = Null THEN Null ELSE Or(d.value, Null)

\* revenue > 0 && costOfRevenue > 0 ? revenue - costOfRevenue : null
grossProfitOf(revenue, costOfRevenue) ==
    IF revenue > 0 /\ costOfRevenue > 0 THEN Num(revenue - costOfRevenue) ELSE Null

\* revenue > 0 && x ? (x / revenue) * 100 : null, for x a number or null
marginOf(revenue, x) ==
    IF revenue > 0 /\ Truthy(x) THEN Frac(100 * x.v, revenue) ELSE Null

\* a <= b for two unrounded margins
FracLE(a, b) == a.n * b.d <= b.n * a.d

\* (sgaData?.value || 0) + (rdData?.value || 0) || null
operatingExpensesTotal(sgaData, rdData) ==
    Or(Num(ValueOrZero(sgaData) + ValueOrZero(rdData)), Null)

\* currentAssets && currentLiabilities ? currentAssets - currentLiabilities : null
workingCapitalOf(currentAssets, currentLiabilities) ==
    IF currentAssets # 0 /\ currentLiabilities # 0
    THEN Num(currentAssets - currentLiabilities) ELSE Null

\* operatingCashFlow && investingCashFlow ? operatingCashFlow + investingCashFlow : null
freeCashFlowOf(operatingCashFlow, investingCashFlow) ==
    IF operatingCashFlow # 0 /\ investingCashFlow # 0
    THEN Num(operatingCashFlow + investingCashFlow) ELSE Null

\* sharesOutstanding > 0 ? (x / sharesOutstanding).toFixed(2) : null
perShare(x, sharesOutstanding) ==
    IF sharesOutstanding > 0 THEN Fixed(RoundDiv(100 * x, sharesOutstanding)) ELSE Null

\* a failed check that appends no issue
CheckSilent(passed, points, issue) ==
    [score |-> IF passed THEN points ELSE 0, issues |-> <<>>]

\* The quality scorer: one if/else per check, in this order.
Check(passed, points, issue) ==
    [score |-> IF passed THEN points ELSE 0,
     issues |-> IF passed THEN <<>> ELSE <<issue>>]

dataQualityOf(revenue, grossProfit, totalAssets, operatingCashFlow, operatingIncome, grossMargin, netMargin) ==
    LET c1 == Check(revenue > 0, 25, "Missing revenue data")
        c2 == Check(grossProfit # Null /\ grossProfit.v > 0, 25,
                    "Missing or invalid gross profit")
        c3 == Check(totalAssets > 0, 25, "Missing balance sheet data")
        c4 == Check(operatingCashFlow # 0, 25, "Missing cash flow data")
        c5 == Check(Truthy(grossProfit) /\ operatingIncome # 0
                        /\ operatingIncome <= grossProfit.v,
                    10, "Inconsistent profitability metrics")
        c6 == Check(Truthy(grossMargin) /\ Truthy(netMargin)
                        /\ FracLE(netMargin, grossMargin),
                    10, "Inconsistent margin calculations")
    IN  [score |-> c1.score + c2.score + c3.score + c4.score + c5.score + c6.score,
         issues |-> c1.issues \o c2.issues \o c3.issues \o c4.issues
                        \o c5.issues \o c6.issues]

\* Everything the handler computes from the parsed document up to the body
\* of its 200 response.
ExtractData(doc, zone, ticker, cik) ==
    LET annual(names) == getRecentAnnualValue(doc, zone, names, "USD", DefaultMinYear).ret
        revenueData == annual(revenueFields)
        revenue == ValueOrZero(revenueData)
        costData == annual(costFields)
        costOfRevenue == ValueOrZero(costData)
        grossProfit == grossProfitOf(revenue, costOfRevenue)
        sgaData == annual(sgaFields)
        rdData == annual(rdFields)
        operatingIncome == ValueOrZero(annual(operatingIncomeFields))
        netIncome == ValueOrZero(annual(netIncomeFields))
        totalAssets == ValueOrZero(annual(totalAssetsFields))
        totalLiabilities == ValueOrZero(annual(totalLiabilitiesFields))
        stockholdersEquity == ValueOrZero(annual(equityFields))
        currentAssets == ValueOrZero(annual(currentAssetsFields))
        currentLiabilities == ValueOrZero(annual(currentLiabilitiesFields))
        cashAndEquivalents == ValueOrZero(annual(cashFields))
        operatingCashFlow == ValueOrZero(annual(operatingCashFlowFields))
        investingCashFlow == ValueOrZero(annual(investingCashFlowFields))
        financingCashFlow == ValueOrZero(annual(financingCashFlowFields))
        sharesOutstanding == ValueOrZero(annual(sharesFields))
        earningsPerShare == ValueOrZero(annual(epsFields))
        grossMargin == marginOf(revenue, grossProfit)
        netMargin == marginOf(revenue, Num(netIncome))
    IN  [metadata |->
            [ticker |-> ticker,
             cik |-> cik,
             dataYear |-> IF revenueData = Null THEN Str("N/A")
                          ELSE Or(Num(revenueData.year), Str("N/A")),
             filingDate |-> IF revenueData = Null THEN Str("N/A")
                            ELSE Or(revenueData.filingDate, Str("N/A")),
             fiscalYearEnd |-> Str("Unknown")],
         incomeStatement |->
            [revenues |-> Num(revenue),
             costOfRevenues |-> Num(costOfRevenue),
             grossProfit |-> grossProfit,
             operatingExpenses |->
                [sga |-> ValueOrNull(sgaData),
                 rd |-> ValueOrNull(rdData),
                 total |-> operatingExpensesTotal(sgaData, rdData)],
             operatingIncome |-> Num(operatingIncome),
             netIncome |-> Num(netIncome),
             earningsPerShare |-> Num(earningsPerShare),
             sharesOutstanding |-> Num(sharesOutstanding)],
         balanceSheet |->
            [totalAssets |-> Num(totalAssets),
             currentAssets |-> Num(currentAssets),
             cashAndCashEquivalents |-> Num(cashAndEquivalents),
             totalLiabilities |-> Num(totalLiabilities),
             currentLiabilities |-> Num(currentLiabilities),
             stockholdersEquity |-> Num(stockholdersEquity),
             workingCapital |-> workingCapitalOf(currentAssets, currentLiabilities)],
         cashFlowStatement |->
            [operatingCashFlow |-> Num(operatingCashFlow),
             investingCashFlow |-> Num(investingCashFlow),
             financingCashFlow |-> Num(financingCashFlow),
             freeCashFlow |-> freeCashFlowOf(operatingCashFlow, investingCashFlow)],
         keyMetrics |->
            [grossMargin |-> calculateRatio(grossProfit, Num(revenue)),
             operatingMargin |-> calculateRatio(Num(operatingIncome), Num(revenue)),
             netMargin |-> calculateRatio(Num(netIncome), Num(revenue)),
             returnOnAssets |-> calculateRatio(Num(netIncome), Num(totalAssets)),
             returnOnEquity |-> calculateRatio(Num(netIncome), Num(stockholdersEquity)),
             currentRatio |-> calculateSimpleRatio(Num(currentAssets), Num(currentLiabilities)),
             \* currentAssets - currentAssets * 0.3 over currentLiabilities,
             \* both scaled by 10 to stay in the integers
             quickRatio |-> calculateSimpleRatio(Num(7 * currentAssets),
                                                 Num(10 * currentLiabilities)),
             debtToEquity |-> calculateSimpleRatio(Num(totalLiabilities - currentLiabilities),
                                                   Num(stockholdersEquity)),
             debtToAssets |-> calculateRatio(Num(totalLiabilities - currentLiabilities),
                                             Num(totalAssets)),
             assetTurnover |-> calculateSimpleRatio(Num(revenue), Num(totalAssets)),
             priceToEarnings |-> Null,
             priceToBook |-> Null,
             bookValuePerShare |-> perShare(stockholdersEquity, sharesOutstanding),
             revenuePerShare |-> perShare(revenue, sharesOutstanding)],
         trends |->
            [quarterlyRevenue |->
                getQuarterlyValues(doc, zone, revenueFields, "USD", DefaultQuarters),
             quarterlyNetIncome |->
                getQuarterlyValues(doc, zone, quarterlyNetIncomeFields, "USD", DefaultQuarters)],
         dataQuality |->
            dataQualityOf(revenue, grossProfit, totalAssets, operatingCashFlow,
                          operatingIncome, grossMargin, netMargin)]

-----------------------------------------------------------------------------
(* Inputs of the selector harness *)

Zones == {"utc", "west"}

Obs(form, fp, val, end, filed) ==
    [form |-> form, fp |-> fp, val |-> val, end |-> end, filed |-> filed]

\* Observations that differ in every condition of the filter: the form, the
\* fiscal period, the value, the end date and its year, and the sign.
ObsPool ==
    { Obs(Str("10-K"),   Str("FY"), Num(700),   DateStr(2023, 12, 31), DateStr(2024, 2, 15)),
      Obs(Str("10-K/A"), Str("FY"), Num(650),   DateStr(2023, 12, 31), DateStr(2024, 6, 1)),
      Obs(Str("10-K"),   Str("FY"), Num(500),   DateStr(2022, 12, 31), DateStr(2023, 2, 15)),
      Obs(Str("10-K"),   Str("FY"), Num(400),   DateStr(2021, 12, 31), DateStr(2022, 2, 15)),
      Obs(Str("10-K"),   Str("FY"), Num(600),   DateStr(2022, 1, 1),   DateStr(2022, 3, 1)),
      Obs(Str("10-K"),   Str("FY"), Num(0),     DateStr(2023, 12, 31), DateStr(2024, 2, 15)),
      Obs(Str("10-K"),   Str("FY"), Num(-50),   DateStr(2024, 12, 31), DateStr(2025, 2, 15)),
      Obs(Str("10-Q"),   Str("Q1"), Num(90),    DateStr(2024, 3, 31),  DateStr(2024, 5, 1)),
      Obs(Str("10-K"),   Str("Q4"), Num(95),    DateStr(2024, 12, 31), DateStr(2025, 2, 15)),
      Obs(Undefined,     Str("FY"), Num(200),   DateStr(2024, 12, 31), Undefined),
      Obs(Str("10-K"),   Str("FY"), Null,       DateStr(2024, 12, 31), DateStr(2025, 2, 15)),
      Obs(Str("10-K"),   Str("FY"), Str("n/a"), DateStr(2024, 12, 31), DateStr(2025, 2, 15)),
      Obs(Str("10-K"),   Str("FY"), Num(300),   Undefined,             DateStr(2025, 2, 15)) }

\* at most this many observations in one document of the selector harness
MaxObs == 2

PreferredTag == "RevenueFromContractWithCustomerExcludingAssessedTax"
FallbackTag == "Revenues"

Fact(values) == [units |-> [USD |-> values]]

\* A document with the two tags; a tag with no observation is left out.
TwoTagDoc(a, b) ==
    [tag \in (IF a = <<>> THEN {} ELSE {PreferredTag})
             \cup (IF b = <<>> THEN {} ELSE {FallbackTag})
        |-> IF tag = PreferredTag THEN Fact(a) ELSE Fact(b)]

SelectDocs ==
    UNION { { TwoTagDoc(a, b) : a \in [1..i -> ObsPool], b \in [1..j -> ObsPool] }
            : <<i, j>> \in { p \in (0..MaxObs) \X (0..MaxObs) : p[1] + p[2] <= MaxObs } }

AliasLists ==
    { revenueFields,
      <<FallbackTag, PreferredTag>>,
      <<"NetRevenues", FallbackTag>> }

\* Observations for the trend sampler: five that pass its filter, two of
\* them ending on the same day, and an amended annual report, which does not.
QuarterlyPool ==
    { Obs(Str("10-Q"),   Str("Q1"), Num(90),  DateStr(2024, 3, 31),  DateStr(2024, 5, 1)),
      Obs(Str("10-Q"),   Str("Q2"), Num(0),   DateStr(2024, 6, 30),  DateStr(2024, 8, 1)),
      Obs(Str("10-Q"),   Str("Q3"), Num(-50), DateStr(2024, 9, 30),  DateStr(2024, 11, 1)),
      Obs(Str("10-K"),   Str("FY"), Num(300), DateStr(2024, 12, 31), DateStr(2025, 2, 15)),
      Obs(Str("10-K"),   Str("Q4"), Num(95),  DateStr(2024, 12, 31), DateStr(2025, 2, 15)),
      Obs(Str("10-K/A"), Str("FY"), Num(310), DateStr(2024, 12, 31), DateStr(2025, 6, 1)) }

\* at most this many observations under the first tag of a trend document
MaxQuarterlyObs == 5

\* the observations under the second tag: none, one the filter rejects, one it keeps
QuarterlyFallbacks ==
    { <<>>,
      << Obs(Str("10-Q"), Str("Q1"), Null, DateStr(2025, 3, 31), DateStr(2025, 5, 1)) >>,
      << Obs(Str("10-Q"), Str("Q1"), Num(120), DateStr(2025, 3, 31), DateStr(2025, 5, 1)) >> }

\* sequences of distinct observations of the pool, in every order
QuarterlySeqs ==
    UNION { { s \in [1..n -> QuarterlyPool] : \A i, j \in 1..n : s[i] = s[j] => i = j }
            : n \in 0..MaxQuarterlyObs }

QuarterlyDocs == { TwoTagDoc(a, b) : a \in QuarterlySeqs, b \in QuarterlyFallbacks }

QuarterlyAliasLists == { revenueFields, <<FallbackTag, PreferredTag>>, quarterlyNetIncomeFields }

WindowSizes == {1, 2, DefaultQuarters}

MinYears == {DefaultMinYear, DefaultMinYear + 1}

-----------------------------------------------------------------------------
(* Inputs of the ratio harness *)

RatioOperands ==
    {Null, Undefined}
        \cup {Num(n) : n \in {-10000, -1000, -50, -1, 0, 1, 3, 50, 100, 1000, 10000}}

-----------------------------------------------------------------------------
(* Inputs of the request handler *)

\* an annual observation of the latest full fiscal year
AnnualObs(val) ==
    Obs(Str("10-K"), Str("FY"), val, DateStr(2023, 12, 31), DateStr(2024, 2, 15))

\* The document that reports each tag of `choice` once; a tag whose choice
\* is Undefined is not in the document.
ValueDoc(choice) ==
    [tag \in {g \in DOMAIN choice : choice[g] # Undefined}
        |-> Fact(<<AnnualObs(choice[tag])>>)]

StatementChoices ==
    [Revenues : {Undefined, Num(0), Num(1000), Num(-1000)},
     CostOfRevenue : {Undefined, Num(0), Num(600), Num(1200), Num(-600)},
     OperatingIncomeLoss : {Undefined, Num(0), Num(300), Num(500), Num(-300)},
     NetIncomeLoss : {Undefined, Num(0), Num(100), Num(450), Num(-100)},
     Assets : {Undefined, Num(0), Num(500)},
     NetCashProvidedByUsedInOperatingActivities : {Undefined, Num(0), Num(200), Num(-200)}]

StatementDocs == {ValueDoc(choice) : choice \in StatementChoices}

\* balance-sheet documents: current and total positions, each absent, zero
\* or reported
BalanceChoices ==
    [AssetsCurrent : {Undefined, Num(0), Num(400), Num(-400)},
     LiabilitiesCurrent : {Undefined, Num(0), Num(150)},
     Liabilities : {Undefined, Num(0), Num(350)},
     StockholdersEquity : {Undefined, Num(0), Num(250), Num(-250)},
     Assets : {Undefined, Num(500)}]

BalanceDocs == {ValueDoc(choice) : choice \in BalanceChoices}

\* cash-flow and operating-expense documents
CashChoices ==
    [NetCashProvidedByUsedInOperatingActivities : {Undefined, Num(0), Num(200)},
     NetCashProvidedByUsedInInvestingActivities : {Undefined, Num(0), Num(-80), Num(-200)},
     SellingGeneralAndAdministrativeExpense : {Undefined, Num(0), Num(50), Num(-50)},
     ResearchAndDevelopmentExpense : {Undefined, Num(0), Num(50)}]

CashDocs == {ValueDoc(choice) : choice \in CashChoices}

\* documents whose margins lie on both sides of the ratio bound
MarginChoices ==
    [Revenues : {Num(1000)},
     CostOfRevenue : {Num(600), Num(12000)},
     NetIncomeLoss : {Undefined, Num(100), Num(450), Num(-12000)}]

MarginDocs == {ValueDoc(choice) : choice \in MarginChoices}

\* documents whose revenue and cost of revenue were last reported for the
\* same fiscal year or for different ones
RevenueOfYear == [y \in {2022, 2023} |-> IF y = 2023 THEN 700 ELSE 500]
CostOfYear == [y \in {2022, 2023} |-> IF y = 2023 THEN 300 ELSE 280]
ObsOfYear(val, y) ==
    Obs(Str("10-K"), Str("FY"), Num(val), DateStr(y, 12, 31), DateStr(y + 1, 2, 15))

PeriodDocs ==
    { [tag \in {"Revenues", "CostOfRevenue"} |->
          IF tag = "Revenues" THEN Fact(<<ObsOfYear(RevenueOfYear[r], r)>>)
          ELSE Fact(<<ObsOfYear(CostOfYear[c], c)>>)]
      : r \in {2022, 2023}, c \in {2022, 2023} }

HandlerDocs ==
    StatementDocs \cup SelectDocs \cup BalanceDocs \cup CashDocs \cup MarginDocs \cup PeriodDocs

EmptyDoc == [tag \in {} |-> Fact(<<>>)]

\* The parsed response body: with no facts at all, with facts that hold no
\* us-gaap namespace, and with a us-gaap namespace.
Bodies ==
    {[facts |-> Undefined], [facts |-> [ns \in {} |-> EmptyDoc]]}
        \cup {[facts |-> [ns \in {"us-gaap"} |-> doc]] : doc \in HandlerDocs}

Methods == {"GET", "POST"}
Tickers == {Undefined, Str("ACME")}
Ciks == {Undefined, Str("320193")}

NoResponse == [status |-> 0, body |-> Null]
NoRequest == [method |-> "", ticker |-> Undefined, cik |-> Undefined]

\* the years the system clock passes through
Years == {2025, 2026, 2027}
NoEarlier == [at |-> 0, req |-> NoRequest, factsData |-> Null, res |-> NoResponse]

\* Inputs of the server that answers two requests: a second company, and
\* documents whose observations end on both sides of a floor that moves
\* with the clock.
RepeatTickers == {Str("ACME"), Str("INIT")}
RepeatObs ==
    { Obs(Str("10-K"), Str("FY"), Num(700), DateStr(2023, 12, 31), DateStr(2024, 2, 15)),
      Obs(Str("10-K"), Str("FY"), Num(500), DateStr(2022, 12, 31), DateStr(2023, 2, 15)),
      Obs(Str("10-K"), Str("FY"), Num(600), DateStr(2022, 1, 1),   DateStr(2022, 3, 1)) }
RepeatSeqs == {<<>>} \cup {<<o>> : o \in RepeatObs}
RepeatDocs == { TwoTagDoc(a, b) : a \in RepeatSeqs, b \in RepeatSeqs }
RepeatBodies ==
    {[facts |-> Undefined]} \cup {[facts |-> [ns \in {"us-gaap"} |-> doc]] : doc \in RepeatDocs}


-----------------------------------------------------------------------------
(* Values of the page component.  A text the code measures or searches in
   (a query, a ticker, a company title) is a tuple of letters. *)

\* the file of company tickers the search endpoint reads
TickerFile ==
    << [ticker |-> <<"A", "C">>, title |-> <<"A", "C", "M", "E">>, cik_str |-> 1],
       [ticker |-> <<"I", "N">>, title |-> <<"I", "N", "I", "T">>, cik_str |-> 2] >>

\* what the user types into the search box
Queries == { <<>>, <<"A">>, <<"A", "C">>, <<"I", "N">> }

NoRun == [pc |-> "idle", i |-> 0, company |-> Null, requests |-> 0]
NoCall == [id |-> 0, query |-> <<>>]
NoHist ==
    [searches |-> 0, latest |-> NoCall, answer |-> <<>>,
     selections |-> 0, lastSelected |-> Null,
     runs |-> 0, requests |-> 0, downloads |-> 0, outcome |-> "", report |-> Null]

\* the component before it is mounted
UiOff ==
    /\ searchQuery = <<>> /\ searchResults = <<>> /\ selectedCompany = Null
    /\ loading = FALSE /\ searchLoading = FALSE /\ error = "" /\ success = ""
    /\ analysisProgress = 0 /\ currentStep = "" /\ recentDownloads = <<>>
    /\ dataQuality = Null
    /\ debounce = "none" /\ searchCalls = {} /\ infoCalls = {} /\ run = NoRun
    /\ hist = NoHist

-----------------------------------------------------------------------------
(* The selector harness: one call of getRecentAnnualValue *)

SelOff == selPc = "off" /\ fieldNames = <<>> /\ minYear = DefaultMinYear /\ selResult = NoData
QtrOff == qtrPc = "off" /\ qtrFieldNames = <<>> /\ qtrWindow = DefaultQuarters /\ qtrResult = <<>>
ClkOff == now = 2025 /\ earlier = NoEarlier
RatOff == ratPc = "off" /\ numerator = Null /\ denominator = Null /\ ratio = Null
HdlOff == pc = "off" /\ req = NoRequest /\ factsData = Null /\ res = NoResponse

InitSelect ==
    /\ selPc = "ready"
    /\ usgaap \in SelectDocs
    /\ tz \in Zones
    /\ fieldNames \in AliasLists
    /\ minYear \in MinYears
    /\ selResult = NoData
    /\ QtrOff
    /\ RatOff
    /\ HdlOff
    /\ ClkOff
    /\ UiOff

CallSelect ==
    /\ selPc = "ready"
    /\ selResult' = getRecentAnnualValue(usgaap, tz, fieldNames, "USD", minYear)
    /\ selPc' = "done"
    /\ UNCHANGED <<usgaap, tz, fieldNames, minYear>>
    /\ UNCHANGED <<qtrVars, uiVars, clkVars>>
    /\ UNCHANGED ratVars
    /\ UNCHANGED hdlVars

NextSelect == CallSelect

SpecSelect == InitSelect /\ [][NextSelect]_vars

-----------------------------------------------------------------------------
(* The trend harness: one call of getQuarterlyValues *)

InitQuarterly ==
    /\ qtrPc = "ready"
    /\ usgaap \in QuarterlyDocs
    /\ tz \in Zones
    /\ qtrFieldNames \in QuarterlyAliasLists
    /\ qtrWindow \in WindowSizes
    /\ qtrResult = <<>>
    /\ SelOff
    /\ RatOff
    /\ HdlOff
    /\ ClkOff
    /\ UiOff

CallQuarterly ==
    /\ qtrPc = "ready"
    /\ qtrResult' = getQuarterlyValues(usgaap, tz, qtrFieldNames, "USD", qtrWindow)
    /\ qtrPc' = "done"
    /\ UNCHANGED <<usgaap, tz, qtrFieldNames, qtrWindow>>
    /\ UNCHANGED <<selVars, ratVars, hdlVars, clkVars, uiVars>>

NextQuarterly == CallQuarterly

SpecQuarterly == InitQuarterly /\ [][NextQuarterly]_vars

-----------------------------------------------------------------------------
(* The ratio harness: one call of calculateRatio or calculateSimpleRatio *)

InitRatio ==
    /\ ratPc = "ready"
    /\ numerator \in RatioOperands
    /\ denominator \in RatioOperands
    /\ ratio = Null
    /\ usgaap = EmptyDoc
    /\ tz = "utc"
    /\ SelOff
    /\ QtrOff
    /\ HdlOff
    /\ ClkOff
    /\ UiOff

CallCalculateRatio ==
    /\ ratPc = "ready"
    /\ ratio' = calculateRatio(numerator, denominator)
    /\ ratPc' = "percent"
    /\ UNCHANGED <<numerator, denominator>>
    /\ UNCHANGED <<selVars, qtrVars, uiVars, clkVars, envVars, hdlVars>>

CallCalculateSimpleRatio ==
    /\ ratPc = "ready"
    /\ ratio' = calculateSimpleRatio(numerator, denominator)
    /\ ratPc' = "simple"
    /\ UNCHANGED <<numerator, denominator>>
    /\ UNCHANGED <<selVars, qtrVars, uiVars, clkVars, envVars, hdlVars>>

NextRatio == CallCalculateRatio \/ CallCalculateSimpleRatio

SpecRatio == InitRatio /\ [][NextRatio]_vars

-----------------------------------------------------------------------------
(* The request handler of /api/sec-data *)

Init ==
    /\ pc = "idle"
    /\ req = NoRequest
    /\ factsData = Null
    /\ res = NoResponse
    /\ usgaap = EmptyDoc
    /\ tz \in Zones
    /\ SelOff
    /\ QtrOff
    /\ RatOff
    /\ ClkOff
    /\ UiOff

Respond(status, body) == res' = [status |-> status, body |-> body] /\ pc' = "responded"

ServerError == Respond(500, [message |-> "Failed to fetch SEC data"])

\* a handler that goes to the upstream fetch without its checks and its delay
ReceiveThenFetch(method, ticker, cik) ==
    /\ pc = "idle"
    /\ req' = [method |-> method, ticker |-> ticker, cik |-> cik]
    /\ pc' = "fetch"
    /\ UNCHANGED <<res, factsData, usgaap, tz>>
    /\ UNCHANGED <<selVars, qtrVars, uiVars, clkVars, ratVars>>

\* the method and query checks that come before the try block
Receive(method, ticker, cik) ==
    /\ pc = "idle"
    /\ req' = [method |-> method, ticker |-> ticker, cik |-> cik]
    /\ IF method # "GET"
       THEN Respond(405, [message |-> "Method not allowed"])
       ELSE IF ~Truthy(ticker) \/ ~Truthy(cik)
            THEN Respond(400, [message |-> "Ticker and CIK required"])
            ELSE pc' = "delay" /\ UNCHANGED res
    /\ UNCHANGED <<factsData, usgaap, tz>>
    /\ UNCHANGED <<selVars, qtrVars, uiVars, clkVars, ratVars>>

\* await new Promise(resolve => setTimeout(resolve, 100))
DelayElapsed ==
    /\ pc = "delay"
    /\ pc' = "fetch"
    /\ UNCHANGED <<req, factsData, res, usgaap, tz>>
    /\ UNCHANGED <<selVars, qtrVars, uiVars, clkVars, ratVars>>

\* await fetch(factsUrl): the response is ok
FetchOk ==
    /\ pc = "fetch"
    /\ pc' = "json"
    /\ UNCHANGED <<req, factsData, res, usgaap, tz>>
    /\ UNCHANGED <<selVars, qtrVars, uiVars, clkVars, ratVars>>

\* fetch rejects, the response is not ok, or its body is no JSON: the
\* catch block answers 500
FetchFails ==
    /\ pc \in {"fetch", "json"}
    /\ ServerError
    /\ UNCHANGED <<req, factsData, usgaap, tz>>
    /\ UNCHANGED <<selVars, qtrVars, uiVars, clkVars, ratVars>>

\* await factsResponse.json() and everything after it, up to the response
Extract(body) ==
    /\ pc = "json"
    /\ factsData' = body
    /\ IF body.facts = Undefined
       THEN ServerError /\ UNCHANGED usgaap
       ELSE /\ usgaap' = (IF "us-gaap" \in DOMAIN body.facts
                          THEN body.facts["us-gaap"] ELSE EmptyDoc)
            /\ Respond(200, ExtractData(usgaap', tz, req.ticker, req.cik))
    /\ UNCHANGED <<req, tz>>
    /\ UNCHANGED <<selVars, qtrVars, uiVars, clkVars, ratVars>>

Next ==
    \/ \E method \in Methods, ticker \in Tickers, cik \in Ciks : Receive(method, ticker, cik)
    \/ DelayElapsed
    \/ FetchOk
    \/ FetchFails
    \/ \E body \in Bodies : Extract(body)

Spec == Init /\ [][Next]_vars

-----------------------------------------------------------------------------
(* The same handler answering two requests in a row while time passes *)

InitRepeat ==
    /\ pc = "idle"
    /\ req = NoRequest
    /\ factsData = Null
    /\ res = NoResponse
    /\ usgaap = EmptyDoc
    /\ tz \in Zones
    /\ now = 2025
    /\ earlier = NoEarlier
    /\ UiOff
    /\ SelOff
    /\ QtrOff
    /\ RatOff

\* the clock moves on, at any point of a request or between two requests
Tick ==
    /\ now + 1 \in Years
    /\ now' = now + 1
    /\ UNCHANGED <<earlier, hdlVars, envVars, selVars, qtrVars, uiVars, ratVars>>

\* the handler has returned; the next invocation starts with fresh locals
NextRequest ==
    /\ pc = "responded"
    /\ earlier = NoEarlier
    /\ earlier' = [at |-> now, req |-> req, factsData |-> factsData, res |-> res]
    /\ pc' = "idle"
    /\ req' = NoRequest
    /\ factsData' = Null
    /\ res' = NoResponse
    /\ usgaap' = EmptyDoc
    /\ UNCHANGED <<now, tz, selVars, qtrVars, uiVars, ratVars>>

NextRepeat ==
    \/ \E ticker \in RepeatTickers, cik \in Ciks : Receive("GET", ticker, cik)
    \/ DelayElapsed
    \/ FetchOk
    \/ FetchFails
    \/ \E body \in RepeatBodies : Extract(body)
    \/ NextRequest
    \/ Tick

SpecRepeat == InitRepeat /\ [][NextRepeat]_vars

-----------------------------------------------------------------------------
(* The page component: company search and company selection *)

\* text.includes(term)
Includes(text, term) ==
    \E k \in 0..(Len(text) - Len(term)) : SubSeq(text, k + 1, k + Len(term)) = term

\* One result of /api/search-companies.  The cik is the zero-padded text of
\* cik_str; it is carried as the number.
SearchResult(company) ==
    [ticker |-> company.ticker, name |-> company.title, cik |-> company.cik_str,
     exchange |-> "Public"]

\* The body of a 200 response of /api/search-companies.  A query of the
\* model matches at most one company, so the sort and slice(0, 10) that
\* follow the filter leave the list as it is.
SearchResultsFor(query) ==
    LET matches == SelectSeq(TickerFile,
                             LAMBDA c : Includes(c.ticker, query) \/ Includes(c.title, query))
    IN  [k \in 1..Len(matches) |-> SearchResult(matches[k])]

\* The body of a 200 response of /api/company-info: the registered name,
\* the cik of the request, and the classification code.
CompanyInfoFor(cik) ==
    LET entry == CHOOSE c \in {TickerFile[k] : k \in 1..Len(TickerFile)} : c.cik_str = cik
    IN  [name |-> entry.title, cik |-> cik, sic |-> "7372"]

\* at most this many calls of searchCompanies and of selectCompany
MaxSearches == 3
MaxSelections == 2

SearchOutcomes == {"ok", "failed"}

InitSearch ==
    /\ searchQuery = <<>> /\ searchResults = <<>> /\ selectedCompany = Null
    /\ loading = FALSE /\ searchLoading = FALSE /\ error = "" /\ success = ""
    /\ analysisProgress = 0 /\ currentStep = "" /\ recentDownloads = <<>>
    /\ dataQuality = Null
    /\ debounce = "armed"
    /\ searchCalls = {} /\ infoCalls = {} /\ run = NoRun
    /\ hist = NoHist
    /\ usgaap = EmptyDoc /\ tz = "utc"
    /\ SelOff /\ QtrOff /\ RatOff /\ HdlOff /\ ClkOff

\* onChange of the search box, and the effect that re-arms the timeout
Type(query) ==
    /\ ~loading
    /\ query # searchQuery
    /\ searchQuery' = query
    /\ debounce' = "armed"
    /\ UNCHANGED <<searchResults, selectedCompany, loading, searchLoading, error, success,
                   analysisProgress, currentStep, recentDownloads, dataQuality>>
    /\ UNCHANGED <<searchCalls, infoCalls, run, hist>>
    /\ UNCHANGED <<selVars, qtrVars, ratVars, hdlVars, clkVars, envVars>>

\* the timeout fires: searchCompanies(searchQuery) up to its await
TimerFires ==
    /\ debounce = "armed"
    /\ hist.searches < MaxSearches
    /\ debounce' = "none"
    /\ LET call == [id |-> hist.searches + 1, query |-> searchQuery]
       IN  IF Len(searchQuery) < 2
           THEN /\ searchResults' = <<>>
                /\ hist' = [hist EXCEPT !.searches = @ + 1, !.latest = call, !.answer = <<>>]
                /\ UNCHANGED <<searchLoading, searchCalls>>
           ELSE /\ searchLoading' = TRUE
                /\ searchCalls' = searchCalls \cup {call}
                /\ hist' = [hist EXCEPT !.searches = @ + 1, !.latest = call, !.answer = <<>>]
                /\ UNCHANGED searchResults
    /\ UNCHANGED <<searchQuery, selectedCompany, loading, error, success,
                   analysisProgress, currentStep, recentDownloads, dataQuality>>
    /\ UNCHANGED <<infoCalls, run>>
    /\ UNCHANGED <<selVars, qtrVars, ratVars, hdlVars, clkVars, envVars>>

\* the response of a search call arrives ("failed": a status that is not
\* ok, or a rejected fetch); searchCompanies runs to its end
SearchResponds(call, outcome) ==
    /\ call \in searchCalls
    /\ LET results == IF outcome = "ok" THEN SearchResultsFor(call.query) ELSE <<>>
       IN  /\ searchResults' = results
           /\ hist' = IF call = hist.latest THEN [hist EXCEPT !.answer = results] ELSE hist
    /\ searchLoading' = FALSE
    /\ searchCalls' = searchCalls \ {call}
    /\ UNCHANGED <<searchQuery, selectedCompany, loading, error, success,
                   analysisProgress, currentStep, recentDownloads, dataQuality>>
    /\ UNCHANGED <<debounce, infoCalls, run>>
    /\ UNCHANGED <<selVars, qtrVars, ratVars, hdlVars, clkVars, envVars>>

\* a click on a listed result: selectCompany(company) up to its await
selectCompany(company) ==
    /\ \E k \in 1..Len(searchResults) : searchResults[k] = company
    /\ hist.selections < MaxSelections
    /\ selectedCompany' = company
    /\ searchQuery' = company.ticker
    /\ debounce' = IF company.ticker # searchQuery THEN "armed" ELSE debounce
    /\ searchResults' = <<>>
    /\ dataQuality' = Null
    /\ infoCalls' = infoCalls \cup {[id |-> hist.selections + 1, company |-> company]}
    /\ hist' = [hist EXCEPT !.selections = @ + 1, !.lastSelected = company]
    /\ UNCHANGED <<loading, searchLoading, error, success, analysisProgress, currentStep,
                   recentDownloads>>
    /\ UNCHANGED <<searchCalls, run>>
    /\ UNCHANGED <<selVars, qtrVars, ratVars, hdlVars, clkVars, envVars>>

\* the response of a company-info call arrives; selectCompany runs to its end
InfoResponds(call, outcome) ==
    /\ call \in infoCalls
    /\ infoCalls' = infoCalls \ {call}
    /\ selectedCompany' = IF outcome = "ok"
                          THEN CompanyInfoFor(call.company.cik) @@ call.company
                          ELSE selectedCompany
    /\ UNCHANGED <<searchQuery, searchResults, loading, searchLoading, error, success,
                   analysisProgress, currentStep, recentDownloads, dataQuality>>
    /\ UNCHANGED <<debounce, searchCalls, run, hist>>
    /\ UNCHANGED <<selVars, qtrVars, ratVars, hdlVars, clkVars, envVars>>

NextSearch ==
    \/ \E query \in Queries : Type(query)
    \/ TimerFires
    \/ \E call \in searchCalls, outcome \in SearchOutcomes : SearchResponds(call, outcome)
    \/ \E k \in 1..Len(searchResults) : selectCompany(searchResults[k])
    \/ \E call \in infoCalls, outcome \in SearchOutcomes : InfoResponds(call, outcome)

SpecSearch == InitSearch /\ [][NextSearch]_vars

-----------------------------------------------------------------------------
(* The page component: the extraction flow, processCompanyData *)

\* the progress texts, in the order of the loop
steps ==
    << "Validating company information...",
       "Connecting to SEC EDGAR database...",
       "Downloading latest 10-K filing...",
       "Extracting financial statements...",
       "Processing income statement...",
       "Processing balance sheet...",
       "Processing cash flow statement...",
       "Calculating financial ratios...",
       "Validating data accuracy...",
       "Generating Excel workbook..." >>

\* the iteration that sends the request, the lowest score that passes the
\* gate, and the number of earlier downloads kept beside the new one
FetchStep == 3
QualityGate == 50
KeepDownloads == 9

\* setAnalysisProgress(((i + 1) / steps.length) * 100), to the whole percent
ProgressAt(i) == ((i + 1) * 100) \div Len(steps)

\* at most this many runs of the flow after the initial state
MaxRuns == 2

\* how the request of a run ends: a 200 response, a response that is not
\* ok, or a fetch or a body that throws
FetchOutcomes == {"ok", "notOk", "thrown"}

\* The documents behind the 200 responses of /api/sec-data: each of three
\* tags that carry 25-point checks is reported or missing.
ReportDocs ==
    {ValueDoc(choice) : choice \in
        [Revenues : {Undefined, Num(1000)},
         CostOfRevenue : {Undefined, Num(600)},
         NetCashProvidedByUsedInOperatingActivities : {Undefined, Num(200)}]}

\* the companies the page can hold as selected: a search result as it is,
\* or merged with the details of /api/company-info
Selections ==
    LET listed == {SearchResult(TickerFile[k]) : k \in 1..Len(TickerFile)}
    IN  listed \cup {CompanyInfoFor(company.cik) @@ company : company \in listed}

\* the entry of an earlier download, k places before the next one
EarlierDownload(k) ==
    [id |-> 0 - k, ticker |-> <<"A", "C">>, company |-> <<"A", "C", "M", "E">>,
     dataYear |-> Num(2023), dataQuality |-> 100]

\* the entry the flow records for a download; id stands for Date.now(),
\* the date and time texts are left out
NewDownload(company, secData, id) ==
    [id |-> id, ticker |-> company.ticker, company |-> company.name,
     dataYear |-> Or(secData.metadata.dataYear, Str("N/A")),
     dataQuality |-> IF secData.dataQuality.score # 0 THEN secData.dataQuality.score ELSE 0]

\* [newDownload, ...prev.slice(0, 9)]
PrependDownload(newDownload, prev) ==
    <<newDownload>> \o SubSeq(prev, 1, IF Len(prev) < KeepDownloads THEN Len(prev) ELSE KeepDownloads)

\* The page with a company selected and no run started: the list is empty
\* after the selection, or shows the results of a query typed after it; the
\* downloads list is empty or full.
InitProcess ==
    /\ \E company \in Selections, laterQuery \in {<<>>, <<"I", "N">>}, full \in BOOLEAN :
        /\ selectedCompany = company
        /\ searchQuery = IF laterQuery = <<>> THEN company.ticker ELSE laterQuery
        /\ searchResults = IF laterQuery = <<>> THEN <<>> ELSE SearchResultsFor(laterQuery)
        /\ recentDownloads = IF full THEN [k \in 1..(KeepDownloads + 1) |-> EarlierDownload(k)]
                                     ELSE <<>>
        /\ hist = [NoHist EXCEPT !.selections = 1, !.lastSelected = company]
    /\ loading = FALSE /\ searchLoading = FALSE /\ error = "" /\ success = ""
    /\ analysisProgress = 0 /\ currentStep = "" /\ dataQuality = Null
    /\ debounce = "none" /\ searchCalls = {} /\ infoCalls = {} /\ run = NoRun
    /\ usgaap = EmptyDoc /\ tz = "utc"
    /\ SelOff /\ QtrOff /\ RatOff /\ HdlOff /\ ClkOff

\* A click on the button, which is enabled only with a company selected and
\* no run in progress: processCompanyData up to the first await, that is
\* through the first iteration of the loop.
processCompanyData ==
    /\ ~loading
    /\ selectedCompany # Null
    /\ hist.runs < MaxRuns
    /\ loading' = TRUE
    /\ error' = ""
    /\ success' = ""
    /\ dataQuality' = Null
    /\ currentStep' = steps[1]
    /\ analysisProgress' = ProgressAt(0)
    /\ run' = [pc |-> "wait", i |-> 0, company |-> selectedCompany, requests |-> 0]
    /\ hist' = [hist EXCEPT !.runs = @ + 1]
    /\ UNCHANGED <<searchQuery, searchResults, selectedCompany, searchLoading, recentDownloads>>
    /\ UNCHANGED <<debounce, searchCalls, infoCalls>>
    /\ UNCHANGED <<selVars, qtrVars, ratVars, hdlVars, clkVars, envVars>>

\* StepElapsed with a loop that waits in every iteration and sends nothing
StepElapsedNoRequest ==
    /\ run.pc = "wait"
    /\ LET i == run.i + 1
       IN  IF i < Len(steps)
           THEN /\ currentStep' = steps[i + 1]
                /\ analysisProgress' = ProgressAt(i)
                /\ run' = [run EXCEPT !.i = i,
                                      !.pc = "wait"]
                /\ UNCHANGED hist
                /\ UNCHANGED loading
           ELSE /\ currentStep' = ""
                /\ analysisProgress' = 0
                /\ loading' = FALSE
                /\ run' = NoRun
                /\ UNCHANGED hist
    /\ UNCHANGED <<searchQuery, searchResults, selectedCompany, searchLoading, error, success,
                   recentDownloads, dataQuality>>
    /\ UNCHANGED <<debounce, searchCalls, infoCalls>>
    /\ UNCHANGED <<selVars, qtrVars, ratVars, hdlVars, clkVars, envVars>>

\* The 600 ms of an iteration have passed: the next iteration runs up to
\* its await, which is the request in iteration FetchStep and the timeout
\* in every other; after the last iteration the finally block runs.
StepElapsed ==
    /\ run.pc = "wait"
    /\ LET i == run.i + 1
       IN  IF i < Len(steps)
           THEN /\ currentStep' = steps[i + 1]
                /\ analysisProgress' = ProgressAt(i)
                /\ run' = [run EXCEPT !.i = i,
                                      !.pc = IF i = FetchStep THEN "fetch" ELSE "wait",
                                      !.requests = IF i = FetchStep THEN @ + 1 ELSE @]
                /\ hist' = [hist EXCEPT !.requests = IF i = FetchStep THEN @ + 1 ELSE @]
                /\ UNCHANGED loading
           ELSE /\ currentStep' = ""
                /\ analysisProgress' = 0
                /\ loading' = FALSE
                /\ run' = NoRun
                /\ UNCHANGED hist
    /\ UNCHANGED <<searchQuery, searchResults, selectedCompany, searchLoading, error, success,
                   recentDownloads, dataQuality>>
    /\ UNCHANGED <<debounce, searchCalls, infoCalls>>
    /\ UNCHANGED <<selVars, qtrVars, ratVars, hdlVars, clkVars, envVars>>

\* SecDataResponds with a gate that also stops the score QualityGate
SecDataRespondsGateAbove(outcome, doc) ==
    /\ run.pc = "fetch"
    /\ LET secData == ExtractData(doc, tz, run.company.ticker, run.company.cik)
           stored == outcome = "ok" /\ secData.dataQuality # Null
           tooLow == stored /\ secData.dataQuality.score <= QualityGate
       IN  /\ dataQuality' = IF stored THEN secData.dataQuality ELSE dataQuality
           /\ IF outcome = "ok" /\ ~tooLow
              THEN /\ recentDownloads' =
                        PrependDownload(NewDownload(run.company, secData, hist.downloads + 1),
                                        recentDownloads)
                   /\ success' = "Successfully extracted SEC data"
                   /\ hist' = [hist EXCEPT !.downloads = @ + 1, !.outcome = outcome,
                                            !.report = secData.dataQuality]
                   /\ UNCHANGED error
              ELSE /\ error' = CASE outcome = "notOk" -> "Error: Failed to fetch SEC data"
                                 [] outcome = "thrown" -> "Error: fetch failed"
                                 [] OTHER -> "Error: Data quality too low"
                   /\ hist' = [hist EXCEPT !.outcome = outcome,
                                            !.report = IF outcome = "ok" THEN secData.dataQuality
                                                       ELSE @]
                   /\ UNCHANGED <<recentDownloads, success>>
    /\ loading' = FALSE
    /\ analysisProgress' = 0
    /\ currentStep' = ""
    /\ run' = NoRun
    /\ UNCHANGED <<searchQuery, searchResults, selectedCompany, searchLoading>>
    /\ UNCHANGED <<debounce, searchCalls, infoCalls>>
    /\ UNCHANGED <<selVars, qtrVars, ratVars, hdlVars, clkVars, envVars>>

\* The request of the run ends; processCompanyData runs to its end: the
\* quality gate, the download and its entry, the catch and the finally
\* block.  The company is the one selected when the run started.
SecDataResponds(outcome, doc) ==
    /\ run.pc = "fetch"
    /\ LET secData == ExtractData(doc, tz, run.company.ticker, run.company.cik)
           stored == outcome = "ok" /\ secData.dataQuality # Null
           tooLow == stored /\ secData.dataQuality.score < QualityGate
       IN  /\ dataQuality' = IF stored THEN secData.dataQuality ELSE dataQuality
           /\ IF outcome = "ok" /\ ~tooLow
              THEN /\ recentDownloads' =
                        PrependDownload(NewDownload(run.company, secData, hist.downloads + 1),
                                        recentDownloads)
                   /\ success' = "Successfully extracted SEC data"
                   /\ hist' = [hist EXCEPT !.downloads = @ + 1, !.outcome = outcome,
                                            !.report = secData.dataQuality]
                   /\ UNCHANGED error
              ELSE /\ error' = CASE outcome = "notOk" -> "Error: Failed to fetch SEC data"
                                 [] outcome = "thrown" -> "Error: fetch failed"
                                 [] OTHER -> "Error: Data quality too low"
                   /\ hist' = [hist EXCEPT !.outcome = outcome,
                                            !.report = IF outcome = "ok" THEN secData.dataQuality
                                                       ELSE @]
                   /\ UNCHANGED <<recentDownloads, success>>
    /\ loading' = FALSE
    /\ analysisProgress' = 0
    /\ currentStep' = ""
    /\ run' = NoRun
    /\ UNCHANGED <<searchQuery, searchResults, selectedCompany, searchLoading>>
    /\ UNCHANGED <<debounce, searchCalls, infoCalls>>
    /\ UNCHANGED <<selVars, qtrVars, ratVars, hdlVars, clkVars, envVars>>

\* the flow, with the clicks on a listed result that the page accepts at
\* any time and the responses of their company-info calls
NextProcess ==
    \/ processCompanyData
    \/ StepElapsed
    \/ \E outcome \in FetchOutcomes, doc \in ReportDocs : SecDataResponds(outcome, doc)
    \/ \E k \in 1..Len(searchResults) : selectCompany(searchResults[k])
    \/ \E call \in infoCalls, outcome \in SearchOutcomes : InfoResponds(call, outcome)

\* A timeout that was set fires, and a request that was sent ends: the
\* browser answers every fetch or fails it.
SpecProcess ==
    /\ InitProcess
    /\ [][NextProcess]_vars
    /\ WF_vars(StepElapsed)
    /\ WF_vars(\E outcome \in FetchOutcomes, doc \in ReportDocs : SecDataResponds(outcome, doc))

-----------------------------------------------------------------------------
(* Properties of the fact selector, under SpecSelect *)

\* The filter as section 4.1 of the specification states it: the year is the
\* year written in the period end date.
Qualifying(v, floor) ==
    /\ v.form \in {Str("10-K"), Str("10-K/A")}
    /\ v.fp = Str("FY")
    /\ IsNum(v.val)
    /\ v.end.t = "date"
    /\ v.end.y >= floor

\* calendar order of two date strings
DateAfter(a, b) ==
    \/ a.y > b.y
    \/ a.y = b.y /\ a.m > b.m
    \/ a.y = b.y /\ a.m = b.m /\ a.d > b.d

AliasObs(i) == FactValues(usgaap, fieldNames[i], "USD")
HasQualifying(i) == \E k \in 1..Len(AliasObs(i)) : Qualifying(AliasObs(i)[k], minYear)
QualifyingAliases == {i \in 1..Len(fieldNames) : HasQualifying(i)}
FoundIndex ==
    IF \E i \in 1..Len(fieldNames) : fieldNames[i] = selResult.found
    THEN CHOOSE i \in 1..Len(fieldNames) : fieldNames[i] = selResult.found
    ELSE 0
Returned == selPc = "done" /\ selResult.ret # Null

\* C1 (as claimed): when an alias has a qualifying observation, the selector
\* returns a value and takes it from that alias or an earlier one, never
\* from a later alias.
C1_AliasPrecedence ==
    selPc = "done" =>
        \A i \in QualifyingAliases :
            /\ selResult.ret # Null
            /\ FoundIndex >= 1
            /\ FoundIndex <= i

\* C2: a returned value is the value of an observation of the chosen alias
\* that has an annual form, the period FY, a numeric value and an end date,
\* and no qualifying observation of that alias ends strictly later.
C2_ChosenIsLatestQualifying ==
    Returned =>
        /\ FoundIndex >= 1
        /\ \E k \in 1..Len(AliasObs(FoundIndex)) :
              LET o == AliasObs(FoundIndex)[k]
              IN  /\ selResult.ret.value = o.val
                  /\ selResult.ret.endDate = o.end
                  /\ selResult.ret.filingDate = o.filed
                  /\ o.form \in {Str("10-K"), Str("10-K/A")}
                  /\ o.fp = Str("FY")
                  /\ IsNum(o.val)
                  /\ o.end.t = "date"
                  /\ \A j \in 1..Len(AliasObs(FoundIndex)) :
                        Qualifying(AliasObs(FoundIndex)[j], minYear)
                            => ~DateAfter(AliasObs(FoundIndex)[j].end, o.end)

\* the chosen alias holds two qualifying observations that end on different
\* days, and the later one was returned
C2_Witness ==
    /\ Returned
    /\ FoundIndex >= 1
    /\ \E j, k \in 1..Len(AliasObs(FoundIndex)) :
          /\ j < k
          /\ Qualifying(AliasObs(FoundIndex)[j], minYear)
          /\ Qualifying(AliasObs(FoundIndex)[k], minYear)
          /\ DateAfter(AliasObs(FoundIndex)[k].end, AliasObs(FoundIndex)[j].end)
          /\ selResult.ret.endDate = AliasObs(FoundIndex)[k].end

\* C3: the period end of a returned observation is never in a year below
\* the floor, and when every observation of every listed alias is below the
\* floor or fails another condition, nothing is returned.
C3_FiscalYearFloor ==
    selPc = "done" =>
        /\ selResult.ret # Null => selResult.ret.endDate.y >= minYear
        /\ QualifyingAliases = {} => selResult = NoData

\* the only observation with a right form, period, value and end date lies
\* below the floor, and the selector returned nothing
C3_Witness ==
    /\ selPc = "done"
    /\ selResult = NoData
    /\ QualifyingAliases = {}
    /\ \E i \in 1..Len(fieldNames) : \E k \in 1..Len(AliasObs(i)) :
          /\ Qualifying(AliasObs(i)[k], 0)
          /\ AliasObs(i)[k].end.y < minYear

\* C4 (as claimed): the result comes from the first alias of the list that
\* has a qualifying observation, whatever stands before it (absent aliases
\* or aliases with no qualifying observation), with the year of that
\* observation; with no such alias the result is null.
C4_FallThrough ==
    selPc = "done" =>
        IF QualifyingAliases = {}
        THEN selResult = NoData
        ELSE LET first == CHOOSE i \in QualifyingAliases :
                              \A j \in QualifyingAliases : i <= j
             IN  /\ selResult.ret # Null
                 /\ selResult.found = fieldNames[first]
                 /\ selResult.ret.year = selResult.ret.endDate.y

\* observation k of alias i qualifies with a value of 0 or below
ZeroOrNegativeAt(i, k) ==
    /\ Qualifying(AliasObs(i)[k], minYear)
    /\ AliasObs(i)[k].val.v <= 0

\* observation k of alias i ends later than every other qualifying one of it
StrictlyLatestAt(i, k) ==
    \A j \in 1..Len(AliasObs(i)) :
        (j # k /\ Qualifying(AliasObs(i)[j], minYear))
            => DateAfter(AliasObs(i)[k].end, AliasObs(i)[j].end)

LatestAt(k) ==
    /\ Qualifying(AliasObs(FoundIndex)[k], minYear)
    /\ \A j \in 1..Len(AliasObs(FoundIndex)) :
            Qualifying(AliasObs(FoundIndex)[j], minYear)
                => ~DateAfter(AliasObs(FoundIndex)[j].end, AliasObs(FoundIndex)[k].end)

\* C25: among the qualifying observations of the chosen alias that share the
\* latest period end, the selector returns the one listed first in the
\* document, with its value and its filing date.
C25_TieBreakByDocumentOrder ==
    Returned =>
        /\ FoundIndex >= 1
        /\ \E k \in 1..Len(AliasObs(FoundIndex)) :
              /\ LatestAt(k)
              /\ \A j \in 1..(k - 1) : ~LatestAt(j)
              /\ selResult.ret.value = AliasObs(FoundIndex)[k].val
              /\ selResult.ret.endDate = AliasObs(FoundIndex)[k].end
              /\ selResult.ret.filingDate = AliasObs(FoundIndex)[k].filed

\* the chosen alias lists an amended report of 650 before the original
\* report of 700 for the same period end, and 650 was returned
C25_Witness ==
    /\ Returned
    /\ FoundIndex >= 1
    /\ Len(AliasObs(FoundIndex)) = 2
    /\ AliasObs(FoundIndex)[1].form = Str("10-K/A")
    /\ AliasObs(FoundIndex)[2].val = Num(700)
    /\ LatestAt(1) /\ LatestAt(2)
    /\ selResult.ret.value = Num(650)
    /\ selResult.ret.filingDate = DateStr(2024, 6, 1)

-----------------------------------------------------------------------------
(* Properties of the statement builder and the quality scorer, under Spec *)

Answered == pc = "responded" /\ res.status = 200

\* what the handler's selector resolves for an alias list of the table
Selected(names) == getRecentAnnualValue(usgaap, tz, names, "USD", DefaultMinYear).ret

\* no alias of the list has a qualifying observation in the document
NoQualifying(names) ==
    \A i \in 1..Len(names) :
        LET values == FactValues(usgaap, names[i], "USD")
        IN  \A k \in 1..Len(values) : ~Qualifying(values[k], DefaultMinYear)

\* C5 (as claimed): grossProfit is null when exactly one of revenue and
\* costOfRevenue is unresolved, and is revenue - costOfRevenue when both are
\* resolved, whatever their sign.
C5_GrossProfitBothPresent ==
    Answered =>
        LET r == Selected(revenueFields)
            c == Selected(costFields)
            gp == res.body.incomeStatement.grossProfit
        IN  /\ (r = Null) # (c = Null) => gp = Null
            /\ r # Null /\ c # Null => gp = Num(r.value.v - c.value.v)

\* the line items of the three statements: alias list and output field
LineItems ==
    LET b == res.body
    IN  << <<revenueFields, b.incomeStatement.revenues>>,
           <<costFields, b.incomeStatement.costOfRevenues>>,
           <<sgaFields, b.incomeStatement.operatingExpenses.sga>>,
           <<rdFields, b.incomeStatement.operatingExpenses.rd>>,
           <<operatingIncomeFields, b.incomeStatement.operatingIncome>>,
           <<netIncomeFields, b.incomeStatement.netIncome>>,
           <<epsFields, b.incomeStatement.earningsPerShare>>,
           <<sharesFields, b.incomeStatement.sharesOutstanding>>,
           <<totalAssetsFields, b.balanceSheet.totalAssets>>,
           <<currentAssetsFields, b.balanceSheet.currentAssets>>,
           <<cashFields, b.balanceSheet.cashAndCashEquivalents>>,
           <<totalLiabilitiesFields, b.balanceSheet.totalLiabilities>>,
           <<currentLiabilitiesFields, b.balanceSheet.currentLiabilities>>,
           <<equityFields, b.balanceSheet.stockholdersEquity>>,
           <<operatingCashFlowFields, b.cashFlowStatement.operatingCashFlow>>,
           <<investingCashFlowFields, b.cashFlowStatement.investingCashFlow>>,
           <<financingCashFlowFields, b.cashFlowStatement.financingCashFlow>> >>

\* C6 (as claimed): a line item whose alias list yields no qualifying
\* observation is null in the output, and every line item is a number or
\* null.
C6_UnresolvedIsNull ==
    Answered =>
        \A n \in 1..Len(LineItems) :
            /\ NoQualifying(LineItems[n][1]) => LineItems[n][2] = Null
            /\ LineItems[n][2] = Null \/ IsNum(LineItems[n][2])

\* C7 (as claimed): the score of every statement is an integer from 0 to
\* 110.
C7_ScoreInRange ==
    Answered => res.body.dataQuality.score \in 0..110

\* the checklist of section 4.4: points and issue string, in order
Checklist ==
    << <<25, "Missing revenue data">>,
       <<25, "Missing or invalid gross profit">>,
       <<25, "Missing balance sheet data">>,
       <<25, "Missing cash flow data">>,
       <<10, "Inconsistent profitability metrics">>,
       <<10, "Inconsistent margin calculations">> >>

\* the issue strings of the checks in `failed`, in checklist order
IssuesOfFailed(failed) ==
    LET idx == SelectSeq(<<1, 2, 3, 4, 5, 6>>, LAMBDA i : i \in failed)
    IN  [k \in 1..Len(idx) |-> Checklist[idx[k]][2]]

PointsUnless(failed, i) == IF i \in failed THEN 0 ELSE Checklist[i][1]

PointsOfPassed(failed) ==
    PointsUnless(failed, 1) + PointsUnless(failed, 2) + PointsUnless(failed, 3)
        + PointsUnless(failed, 4) + PointsUnless(failed, 5) + PointsUnless(failed, 6)

HasIssue(i) ==
    \E k \in 1..Len(res.body.dataQuality.issues) :
        res.body.dataQuality.issues[k] = Checklist[i][2]

-----------------------------------------------------------------------------
(* Properties of the ratio engine, under SpecRatio *)

\* C9: calculateRatio returns null when the denominator is 0 and when the
\* numerator or the denominator is null or undefined.
C9_RatioNullPropagation ==
    (/\ ratPc = "percent"
     /\ (denominator = Num(0) \/ IsNullish(numerator) \/ IsNullish(denominator)))
        => ratio = Null

\* a null numerator over a usable denominator has given null
C9_Witness ==
    ratPc = "percent" /\ numerator = Null /\ denominator = Num(100) /\ ratio = Null

\* C10 (as claimed): for a numerator that is a number, 0 included, and a
\* denominator that is a number other than 0, with a percentage within
\* [-1000, 1000], calculateRatio returns the percentage rounded to two
\* decimals (here: the nearest number of hundredths), never null.
C10_PercentRatioValue ==
    (/\ ratPc = "percent"
     /\ IsNum(numerator)
     /\ IsNum(denominator)
     /\ denominator.v # 0
     /\ Abs(100 * numerator.v) <= 1000 * Abs(denominator.v))
        => /\ ratio # Null
           /\ 2 * Abs(ratio.v * denominator.v - 10000 * numerator.v) <= Abs(denominator.v)


\* C11: for operands that are numbers other than 0, calculateRatio returns
\* null when the percentage is above 1000 or below -1000, and returns the
\* percentage itself when it is exactly 1000 or -1000.
C11_RatioMagnitudeBound ==
    (/\ ratPc = "percent"
     /\ IsNum(numerator) /\ numerator.v # 0
     /\ IsNum(denominator) /\ denominator.v # 0)
        => /\ Abs(100 * numerator.v) > 1000 * Abs(denominator.v) => ratio = Null
           /\ 100 * numerator.v = 1000 * denominator.v => ratio = Num(100000)
           /\ 100 * numerator.v = -1000 * denominator.v => ratio = Num(-100000)

\* a percentage of exactly 1000 was returned, and one of 10000 was discarded
C11_Witness ==
    /\ ratPc = "percent"
    /\ \/ numerator = Num(1000) /\ denominator = Num(100) /\ ratio = Num(100000)
       \/ numerator = Num(10000) /\ denominator = Num(-1000) /\ ratio = Num(-100000)


\* an observation the quarterly filter of the specification accepts
QuarterlyQualifying(v) ==
    /\ v.form \in {Str("10-Q"), Str("10-K")}
    /\ v.fp \in {Str("Q1"), Str("Q2"), Str("Q3"), Str("Q4"), Str("FY")}
    /\ IsNum(v.val)
    /\ v.end.t = "date"

QtrAliasObs(i) == FactValues(usgaap, qtrFieldNames[i], "USD")
QtrQualifyingCount(i) ==
    Cardinality({k \in 1..Len(QtrAliasObs(i)) : QuarterlyQualifying(QtrAliasObs(i)[k])})
QtrQualifyingAliases == {i \in 1..Len(qtrFieldNames) : QtrQualifyingCount(i) > 0}
\* the first alias of the list that has a qualifying observation
QtrChosen == CHOOSE i \in QtrQualifyingAliases : \A j \in QtrQualifyingAliases : i <= j
Min(a, b) == IF a < b THEN a ELSE b

\* C12: the trend sampler answers from the first alias that has a qualifying
\* observation; every point is a qualifying observation of that alias, the
\* end dates never increase along the sequence, the length is the smaller of
\* the window size and the number of qualifying observations of that alias,
\* and the answer is the empty sequence when no alias qualifies.
C12_QuarterlyWindow ==
    qtrPc = "done" =>
        IF QtrQualifyingAliases = {}
        THEN qtrResult = <<>>
        ELSE /\ Len(qtrResult) = Min(qtrWindow, QtrQualifyingCount(QtrChosen))
             /\ Len(qtrResult) <= qtrWindow
             /\ \A k \in 1..Len(qtrResult) :
                    \E n \in 1..Len(QtrAliasObs(QtrChosen)) :
                        LET o == QtrAliasObs(QtrChosen)[n]
                        IN  /\ QuarterlyQualifying(o)
                            /\ qtrResult[k].value = o.val
                            /\ qtrResult[k].period = o.fp
                            /\ qtrResult[k].endDate = o.end
             /\ \A k \in 1..(Len(qtrResult) - 1) :
                    ~DateAfter(qtrResult[k + 1].endDate, qtrResult[k].endDate)

\* five observations of the first alias qualify, out of date order, and the
\* default window returned four of them
C12_Witness ==
    /\ qtrPc = "done"
    /\ qtrWindow = DefaultQuarters
    /\ QtrQualifyingAliases # {}
    /\ QtrChosen = 1
    /\ QtrQualifyingCount(1) = 5
    /\ QtrAliasObs(1)[1].end = DateStr(2024, 3, 31)
    /\ Len(qtrResult) = 4
    /\ qtrResult[4].endDate = DateStr(2024, 6, 30)


\* both requests got as far as the extraction of a fetched document
BothExtracted ==
    /\ pc = "responded"
    /\ factsData # Null
    /\ earlier # NoEarlier
    /\ earlier.factsData # Null

WellFormed(body) == body.facts # Undefined /\ "us-gaap" \in DOMAIN body.facts

\* C14 (as claimed): once a document was fetched, the response is 200 with
\* a statement and a quality report when the document is well-formed, and
\* an error response when it has no facts mapping or no us-gaap namespace.
C14_MalformedIsHardFailure ==
    (pc = "responded" /\ factsData # Null) =>
        IF WellFormed(factsData)
        THEN /\ res.status = 200
             /\ res.body.dataQuality.score \in Int
        ELSE res.status # 200


\* C15 (as claimed): workingCapital is currentAssets - currentLiabilities
\* and freeCashFlow is operatingCashFlow + investingCashFlow whenever both
\* inputs are resolved, a resolved 0 included, and each is null when at
\* least one of its inputs is unresolved.
C15_WorkingCapitalAndFreeCashFlow ==
    Answered =>
        LET ca == Selected(currentAssetsFields)
            cl == Selected(currentLiabilitiesFields)
            ocf == Selected(operatingCashFlowFields)
            icf == Selected(investingCashFlowFields)
            wc == res.body.balanceSheet.workingCapital
            fcf == res.body.cashFlowStatement.freeCashFlow
        IN  /\ ca # Null /\ cl # Null => wc = Num(ca.value.v - cl.value.v)
            /\ ca = Null \/ cl = Null => wc = Null
            /\ ocf # Null /\ icf # Null => fcf = Num(ocf.value.v + icf.value.v)
            /\ ocf = Null \/ icf = Null => fcf = Null


\* the value of a resolved line item, 0 for an unresolved one
ResolvedOrZero(d) == IF d = Null THEN 0 ELSE d.value.v

\* C16 (as claimed): operatingExpenses.total is sga + rd, an unresolved term
\* counting as 0, whenever at least one of the two is resolved (a sum of 0
\* included), and null exactly when both are unresolved.
C16_OperatingExpensesTotal ==
    Answered =>
        LET sga == Selected(sgaFields)
            rd == Selected(rdFields)
            total == res.body.incomeStatement.operatingExpenses.total
        IN  IF sga = Null /\ rd = Null
            THEN total = Null
            ELSE total = Num(ResolvedOrZero(sga) + ResolvedOrZero(rd))


\* the positions of the line items, in statement order, that resolved
ResolvedItems == {n \in 1..Len(LineItems) : Selected(LineItems[n][1]) # Null}
\* what the selector returned for the first line item that resolved
FirstResolved ==
    Selected(LineItems[CHOOSE n \in ResolvedItems : \A m \in ResolvedItems : n <= m][1])

\* C17 (as claimed): the metadata carries the fiscal year and the filing
\* date of the observation selected for revenue, and, when revenue is
\* unresolved, those of the first line item that did resolve.
C17_MetadataSource ==
    Answered =>
        LET r == Selected(revenueFields)
            m == res.body.metadata
        IN  /\ r # Null =>
                /\ m.dataYear = Num(r.endDate.y)
                /\ m.filingDate = r.filingDate
            /\ r = Null /\ ResolvedItems # {} =>
                /\ m.dataYear = Num(FirstResolved.endDate.y)
                /\ m.filingDate = FirstResolved.filingDate


\* C18 (as claimed): when no liability alias has a qualifying observation,
\* totalLiabilities and debtToEquity are null in the output and the issue
\* of the balance-sheet check is reported instead of its 25 points.
C18_MissingLiabilities ==
    (Answered /\ NoQualifying(totalLiabilitiesFields)) =>
        /\ res.body.balanceSheet.totalLiabilities = Null
        /\ res.body.keyMetrics.debtToEquity = Null
        /\ \E k \in 1..Len(res.body.dataQuality.issues) :
                res.body.dataQuality.issues[k] = "Missing balance sheet data"


\* C19 (as claimed): the profitability check passes, and reports no issue,
\* exactly when operating income is resolved (0 and negative values
\* included), gross profit is present and operatingIncome <= grossProfit.
C19_ProfitabilityCheck ==
    Answered =>
        LET oi == Selected(operatingIncomeFields)
            gp == res.body.incomeStatement.grossProfit
            consistent == oi # Null /\ gp # Null /\ oi.value.v <= gp.v
        IN  consistent <=> ~HasIssue(5)


\* C20 (as claimed): the margin check passes, and reports no issue, exactly
\* when netMargin and grossMargin of the output's keyMetrics are both
\* non-null and netMargin <= grossMargin.
C20_MarginCheckOnOutput ==
    Answered =>
        LET nm == res.body.keyMetrics.netMargin
            gm == res.body.keyMetrics.grossMargin
            consistent == nm # Null /\ gm # Null /\ nm.v <= gm.v
        IN  consistent <=> ~HasIssue(6)


\* C21 (as claimed): calculateSimpleRatio returns null exactly when an
\* operand is null or undefined or the denominator is 0; for every other
\* input it returns numerator / denominator rounded to two decimals (here:
\* the nearest number of hundredths), with no scaling and no bound.
C21_SimpleRatioValue ==
    ratPc = "simple" =>
        IF IsNullish(numerator) \/ IsNullish(denominator) \/ denominator = Num(0)
        THEN ratio = Null
        ELSE /\ ratio # Null
             /\ 2 * Abs(ratio.v * denominator.v - 100 * numerator.v) <= Abs(denominator.v)


\* some revenue alias of the document holds an observation that qualifies
\* under the floor
RevenueQualifies(doc, floor) ==
    \E i \in 1..Len(revenueFields) :
        LET values == FactValues(doc, revenueFields[i], "USD")
        IN  \E k \in 1..Len(values) : Qualifying(values[k], floor)

\* C23 (as claimed): an extraction, which gives no explicit floor, resolves
\* revenue exactly when a revenue observation qualifies under the floor
\* (current year - 3), and the fiscal year it reports is never below that
\* floor.
C23_DefaultFloorFollowsClock ==
    [][(pc = "json" /\ pc' = "responded" /\ res'.status = 200) =>
            LET dataYear == res'.body.metadata.dataYear
            IN  /\ IsNum(dataYear) <=> RevenueQualifies(usgaap', now - 3)
                /\ IsNum(dataYear) => dataYear.v >= now - 3]_vars


\* C24 (as claimed): every line item that resolved was selected from an
\* observation with the period end of the observation selected for revenue.
C24_SameFiscalPeriod ==
    Answered =>
        LET r == Selected(revenueFields)
        IN  r # Null =>
                \A n \in ResolvedItems : Selected(LineItems[n][1]).endDate = r.endDate


\* a request lacks its ticker or its cik
LacksQuery(r) == ~Truthy(r.ticker) \/ ~Truthy(r.cik)

\* one step of the handler, as the claim orders them
OrderedStep ==
    /\ pc = "idle" =>
          IF req'.method # "GET" THEN pc' = "responded" /\ res'.status = 405
          ELSE IF LacksQuery(req') THEN pc' = "responded" /\ res'.status = 400
          ELSE pc' = "delay"
    /\ pc = "delay" => pc' = "fetch"
    /\ pc' = "fetch" => pc = "delay"
    /\ pc = "fetch" => pc' = "json" \/ (pc' = "responded" /\ res'.status = 500)
    /\ pc = "json" => pc' = "responded" /\ res'.status \in {200, 500}
    /\ pc' = "responded" <=> res' # NoResponse
    /\ res = NoResponse

\* C26: a non-GET request is answered 405 and a request without ticker or
\* cik 400, in one step from the start; otherwise the delay is followed by
\* the one upstream fetch, whose failure is answered 500 and whose success
\* leads to 200 or 500; a response is sent once, and the handler can always
\* take a step until it has responded.
C26_ResponseOrder ==
    /\ [][OrderedStep]_vars
    /\ [](pc = "responded" \/ ENABLED Next)

\* a GET request with ticker and cik went through the delay and the fetch
\* and was answered 200
C26_Witness ==
    /\ pc = "responded"
    /\ req.method = "GET"
    /\ ~LacksQuery(req)
    /\ factsData # Null
    /\ res.status = 200


-----------------------------------------------------------------------------
(* Properties of the page component, under SpecSearch *)

\* no timeout is armed and no search call awaits its response
SearchesSettled == debounce = "none" /\ searchCalls = {}

\* C29 (as claimed): before any company is selected, once the timeout has
\* fired and every search call has been answered, the list shown is the
\* answer to the latest call of searchCompanies, and it is empty when the
\* query has fewer than 2 characters.
C29_ResultsOfLatestQuery ==
    (SearchesSettled /\ selectedCompany = Null) =>
        /\ searchResults = hist.answer
        /\ Len(searchQuery) < 2 => searchResults = <<>>

\* C30 (as claimed): once every company-info call has been answered, the
\* selected company has the ticker and the cik of the company selected
\* last, and a failed company-info call leaves the selection as it was.
C30_SelectionIsLastSelected ==
    /\ []((infoCalls = {} /\ hist.selections > 0) =>
            /\ selectedCompany.ticker = hist.lastSelected.ticker
            /\ selectedCompany.cik = hist.lastSelected.cik)
    /\ [][(\E call \in infoCalls : infoCalls' = infoCalls \ {call})
            => (selectedCompany' = selectedCompany \/ "sic" \in DOMAIN selectedCompany')]_vars


-----------------------------------------------------------------------------
(* Properties of the extraction flow, under SpecProcess *)

\* the step in which the request of a run ends
ResponseStep == run.pc = "fetch" /\ run'.pc = "idle"

\* the downloads list after one entry was put in front of it
OnePrepended ==
    /\ Len(recentDownloads') = Len(PrependDownload(EarlierDownload(0), recentDownloads))
    /\ Tail(recentDownloads') = Tail(PrependDownload(EarlierDownload(0), recentDownloads))
    /\ recentDownloads'[1].ticker = run.company.ticker
    /\ recentDownloads'[1].dataQuality = hist'.report.score
    /\ \A k \in 1..Len(recentDownloads) : recentDownloads[k] # recentDownloads'[1]

\* C27: when the 200 response of a run carries a quality report, a score
\* below 50 triggers no download, leaves recentDownloads as it was, sets no
\* success message, sets an error message and stores the report; a score of
\* 50 or more triggers one download and puts exactly one entry in front of
\* recentDownloads.
C27_QualityGate ==
    [][(ResponseStep /\ hist'.outcome = "ok") =>
            IF hist'.report.score < 50
            THEN /\ hist'.downloads = hist.downloads
                 /\ recentDownloads' = recentDownloads
                 /\ success' = ""
                 /\ error' # ""
                 /\ dataQuality' = hist'.report
            ELSE /\ hist'.downloads = hist.downloads + 1
                 /\ OnePrepended
                 /\ success' # ""
                 /\ error' = ""]_vars

\* a run that passed the gate with the score 50 put its entry in front of a
\* full list, and the run after it was stopped by the gate
C27_Witness ==
    /\ run = NoRun /\ hist.runs = 2 /\ hist.downloads = 1
    /\ Len(recentDownloads) = KeepDownloads + 1
    /\ recentDownloads[1].dataQuality = 50
    /\ hist.outcome = "ok" /\ hist.report.score < 50
    /\ dataQuality = hist.report /\ error # "" /\ success = ""

\* the page after a run: not loading, no progress, no step text, and either
\* an error message or a success message
Finished ==
    /\ loading = FALSE /\ analysisProgress = 0 /\ currentStep = ""
    /\ (error # "") # (success # "")

\* C28: every run of the flow that was started reaches the finished page,
\* whatever the end of its request, and a run sends at most one request.
C28_FlowFinishes ==
    /\ loading ~> Finished
    /\ []((~loading /\ hist.runs > 0) => Finished)
    /\ [](run.requests <= 1 /\ hist.requests <= hist.runs)

\* two runs have ended, each after its one request: one with a download,
\* the other with a request that threw
C28_Witness ==
    /\ Finished /\ run = NoRun /\ hist.runs = 2 /\ hist.requests = 2
    /\ hist.downloads = 1 /\ hist.outcome = "thrown" /\ error # ""
=============================================================================
